---- MODULE Spec2Model ----
(***************************************************************************)
(* A model of github.com/zerospiel/portforward: the resolver               *)
(* (getResourceName, findResourceByLabels, getPodName, getFromEndpoints)   *)
(* and the forward lifecycle (Start, the tunnel worker, Stop).             *)
(*                                                                         *)
(* Go strings are TLA+ strings; a Go error is its message, the nil error   *)
(* is NoErr.  A nil pointer is the empty sequence, a non-nil one a         *)
(* one-element sequence.                                                   *)
(***************************************************************************)
EXTENDS Integers, Sequences, FiniteSets, TLC

VARIABLES
    \* ---- the PortForward struct (portforward.go:60-82)
    Name,            \* p.Name
    Labels,          \* p.Labels: [MatchLabels, MatchExpressions]
    resType,         \* p.resType: the String() of podType / serviceType
    ListenPort,      \* p.ListenPort
    DestinationPort, \* p.DestinationPort
    stopChan,        \* p.stopChan: <<>> (nil) or <<[cap, len]>>
    readyChan,       \* p.readyChan: <<>> (nil) or <<[cap, len, closed]>>
    \* ---- locals of Start and the goroutine it launches
    errChan,         \* errChan of Start: <<>> before make, else <<[cap, buf]>>
    startPc,         \* where the caller of Start is
    startRet,        \* what Start returned
    workerPc,        \* where the goroutine of portforward.go:142 is
    runnerErr,       \* what pf.ForwardPorts() returned
    \* ---- the callers of Stop
    stopPc,          \* per Stop call: "idle", "send" or "done"
    stopTarget,      \* per Stop call: the channel value p.stopChan it read
    \* ---- the environment
    ctxDone,         \* whether ctx of Start is cancelled
    pods,            \* the pods of the namespace, in the API's list order
    endpoints,       \* the endpoints of the namespace, in the API's list order
    apiLog,          \* the cluster API calls made so far
    portLog,         \* the free-port discoveries (net.Listen) made so far
    \* ---- observation of the calls made
    last,            \* the last direct call of a helper and what it returned
    hist             \* history of the lifecycle: order of signals, snapshots

vars == <<Name, Labels, resType, ListenPort, DestinationPort, stopChan, readyChan,
          errChan, startPc, startRet, workerPc, runnerErr, stopPc, stopTarget,
          ctxDone, pods, endpoints, apiLog, portLog, last, hist>>

sessionVars == <<Name, Labels, resType, ListenPort, DestinationPort>>
chanVars == <<stopChan, readyChan, errChan>>
startVars == <<startPc, startRet>>
workerVars == <<workerPc, runnerErr>>
stopVars == <<stopPc, stopTarget>>
clusterVars == <<pods, endpoints>>

\* The nil error.
NoErr == "<nil>"

(***************************************************************************)
(* Strings: byte order, search, split, sort.                               *)
(***************************************************************************)
Min(S) == CHOOSE x \in S : \A y \in S : x <= y

\* The bytes the model's strings use, in ASCII order.
Ascii == "!\"(),-./0123456789:<=>ABCDEFGHIJKLMNOPQRSTUVWXYZ_abcdefghijklmnopqrstuvwxyz"

Char(s, i) == SubSeq(s, i, i)

\* strings.Index, 1-based; 0 when sub does not occur in s.
IndexOf(s, sub) ==
    LET n == Len(sub)
        at == {i \in 1..(Len(s) - n + 1) : SubSeq(s, i, i + n - 1) = sub}
    IN  IF at = {} THEN 0 ELSE Min(at)

Ord(c) == IndexOf(Ascii, c)

\* Go's < on strings: bytewise lexicographic.
RECURSIVE StrLess(_, _)
StrLess(a, b) ==
    IF b = "" THEN FALSE
    ELSE IF a = "" THEN TRUE
    ELSE IF Char(a, 1) = Char(b, 1)
         THEN StrLess(SubSeq(a, 2, Len(a)), SubSeq(b, 2, Len(b)))
         ELSE Ord(Char(a, 1)) < Ord(Char(b, 1))

\* strings.Join
RECURSIVE Join(_, _)
Join(ss, sep) ==
    IF Len(ss) = 0 THEN ""
    ELSE IF Len(ss) = 1 THEN ss[1]
    ELSE ss[1] \o sep \o Join(Tail(ss), sep)

\* sort.Strings, as an insertion sort.
RECURSIVE InsertString(_, _)
InsertString(sorted, s) ==
    IF Len(sorted) = 0 THEN <<s>>
    ELSE IF StrLess(s, sorted[1]) THEN <<s>> \o sorted
    ELSE <<sorted[1]>> \o InsertString(Tail(sorted), s)

RECURSIVE SortStrings(_)
SortStrings(ss) ==
    IF Len(ss) = 0 THEN <<>>
    ELSE InsertString(SortStrings(Tail(ss)), ss[1])

\* The pieces of s between the separators c that are outside parentheses
\* when nested, and between all of them otherwise.
RECURSIVE SplitFrom(_, _, _, _, _, _)
SplitFrom(s, c, nested, i, start, depth) ==
    IF i > Len(s) THEN <<SubSeq(s, start, Len(s))>>
    ELSE LET x == Char(s, i)
         IN  IF x = c /\ (depth = 0 \/ ~nested)
             THEN <<SubSeq(s, start, i - 1)>> \o SplitFrom(s, c, nested, i + 1, i + 1, 0)
             ELSE SplitFrom(s, c, nested, i + 1, start,
                            IF x = "(" THEN depth + 1
                            ELSE IF x = ")" THEN depth - 1 ELSE depth)

Split(s, c) == SplitFrom(s, c, FALSE, 1, 1, 0)
SplitTop(s, c) == SplitFrom(s, c, TRUE, 1, 1, 0)

(***************************************************************************)
(* metav1.FormatLabelSelector, as getPodName and getFromEndpoints call it: *)
(* LabelSelectorAsSelector, then labels.Selector.String().                 *)
(***************************************************************************)
\* A map's keys as a sequence, in some order (Go's map iteration).
RECURSIVE KeysOf(_)
KeysOf(S) ==
    IF S = {} THEN <<>>
    ELSE LET k == CHOOSE k \in S : TRUE IN <<k>> \o KeysOf(S \ {k})

\* labels.NewRequirement's check of the number of values per operator.
ValidRequirement(r) ==
    CASE r.op \in {"in", "notin"} -> Len(r.vals) > 0
      [] r.op = "=" -> Len(r.vals) = 1
      [] r.op \in {"exists", "!"} -> Len(r.vals) = 0
      [] OTHER -> FALSE

\* The selection.Operator of a metav1.LabelSelectorOperator.
SelectionOp(operator) ==
    CASE operator = "In" -> "in"
      [] operator = "NotIn" -> "notin"
      [] operator = "Exists" -> "exists"
      [] operator = "DoesNotExist" -> "!"
      [] OTHER -> "invalid"

\* The requirements of a selector, before sorting: one per MatchLabels
\* pair, then one per expression.
RequirementsOf(ps) ==
    LET keys == KeysOf(DOMAIN ps.MatchLabels)
    IN  [i \in 1..Len(keys) |->
            [key |-> keys[i], op |-> "=", vals |-> <<ps.MatchLabels[keys[i]]>>]]
        \o
        [i \in 1..Len(ps.MatchExpressions) |->
            [key |-> ps.MatchExpressions[i].Key,
             op |-> SelectionOp(ps.MatchExpressions[i].Operator),
             vals |-> ps.MatchExpressions[i].Values]]

\* sort.Sort(ByKey(...)) of labels.Selector.Add, as an insertion sort.
RECURSIVE InsertByKey(_, _)
InsertByKey(sorted, r) ==
    IF Len(sorted) = 0 THEN <<r>>
    ELSE IF StrLess(r.key, sorted[1].key) THEN <<r>> \o sorted
    ELSE <<sorted[1]>> \o InsertByKey(Tail(sorted), r)

RECURSIVE SortByKey(_)
SortByKey(rs) ==
    IF Len(rs) = 0 THEN <<>>
    ELSE InsertByKey(SortByKey(Tail(rs)), rs[1])

\* labels.Requirement.String()
RequirementString(r) ==
    CASE r.op = "!" -> "!" \o r.key
      [] r.op = "exists" -> r.key
      [] r.op = "=" -> r.key \o "=" \o r.vals[1]
      [] r.op = "in" -> r.key \o " in (" \o Join(SortStrings(r.vals), ",") \o ")"
      [] r.op = "notin" -> r.key \o " notin (" \o Join(SortStrings(r.vals), ",") \o ")"

\* metav1.FormatLabelSelector
FormatLabelSelector(ps) ==
    LET rs == RequirementsOf(ps)
    IN  IF \E i \in 1..Len(rs) : ~ValidRequirement(rs[i]) THEN "<error>"
        ELSE IF Len(rs) = 0 THEN "<none>"
        ELSE LET sorted == SortByKey(rs)
             IN  Join([i \in 1..Len(sorted) |-> RequirementString(sorted[i])], ",")

\* fields.OneTermEqualSelector(k, v).String()
OneTermEqualSelector(k, v) == k \o "=" \o v

(***************************************************************************)
(* The cluster API: List of pods and of endpoints, as the API server       *)
(* answers it from the selector strings of the request.                    *)
(***************************************************************************)
\* The bytes of a label key or value.
WordBytes == "-.0123456789ABCDEFGHIJKLMNOPQRSTUVWXYZ_abcdefghijklmnopqrstuvwxyz"

WordByteSet == {Char(WordBytes, i) : i \in 1..Len(WordBytes)}

\* A label key or value the server's lexer accepts.
IsWord(s) == s /= "" /\ \A i \in 1..Len(s) : Char(s, i) \in WordByteSet

BadRequirement == [key |-> "", op |-> "invalid", vals |-> <<>>]

\* labels.Parse of one requirement of the request's labelSelector.
ParseRequirement(t) ==
    LET notin == IndexOf(t, " notin (")
        in == IndexOf(t, " in (")
        eq == IndexOf(t, "=")
        SetOf(at, n, op) ==
            LET key == SubSeq(t, 1, at - 1)
                vals == Split(SubSeq(t, at + n, Len(t) - 1), ",")
            IN  IF Char(t, Len(t)) = ")" /\ IsWord(key)
                   /\ \A i \in 1..Len(vals) : IsWord(vals[i])
                THEN [key |-> key, op |-> op, vals |-> vals]
                ELSE BadRequirement
    IN  IF t = "" THEN BadRequirement
        ELSE IF Char(t, 1) = "!"
        THEN IF IsWord(SubSeq(t, 2, Len(t)))
             THEN [key |-> SubSeq(t, 2, Len(t)), op |-> "!", vals |-> <<>>]
             ELSE BadRequirement
        ELSE IF notin > 0 THEN SetOf(notin, 8, "notin")
        ELSE IF in > 0 THEN SetOf(in, 5, "in")
        ELSE IF eq > 0
        THEN IF IsWord(SubSeq(t, 1, eq - 1)) /\ IsWord(SubSeq(t, eq + 1, Len(t)))
             THEN [key |-> SubSeq(t, 1, eq - 1), op |-> "=",
                   vals |-> <<SubSeq(t, eq + 1, Len(t))>>]
             ELSE BadRequirement
        ELSE IF IsWord(t) THEN [key |-> t, op |-> "exists", vals |-> <<>>]
        ELSE BadRequirement

\* labels.Parse: the empty string selects everything.
ParseSelector(s) ==
    IF s = "" THEN <<>>
    ELSE LET ts == SplitTop(s, ",")
         IN  [i \in 1..Len(ts) |-> ParseRequirement(ts[i])]

\* labels.Requirement.Matches
RequirementMatches(r, ls) ==
    LET has == r.key \in DOMAIN ls
        hasValue == has /\ \E i \in 1..Len(r.vals) : r.vals[i] = ls[r.key]
    IN  CASE r.op \in {"in", "=", "=="} -> hasValue
          [] r.op \in {"notin", "!="} -> ~hasValue
          [] r.op = "exists" -> has
          [] r.op = "!" -> ~has

SelectorMatches(rs, ls) == \A i \in 1..Len(rs) : RequirementMatches(rs[i], ls)

\* The field of a pod a field selector may name.
PodField(pod, field) == IF field = "status.phase" THEN <<pod.phase>> ELSE <<>>

\* Pods(ns).List(ctx, ListOptions{LabelSelector, FieldSelector}): the
\* call fails when the transport does (ok = FALSE) or a selector does not
\* parse; an empty fieldSelector filters nothing.
PodsList(labelSelector, fieldSelector, ok) ==
    LET Answer(rs, eq) ==
            LET Keep(pod) ==
                    /\ SelectorMatches(rs, pod.labels)
                    /\ fieldSelector /= "" =>
                          PodField(pod, SubSeq(fieldSelector, 1, eq - 1))
                          = <<SubSeq(fieldSelector, eq + 1, Len(fieldSelector))>>
            IN  IF ~ok THEN [err |-> "the server could not be reached", Items |-> <<>>]
                ELSE IF \E i \in 1..Len(rs) : rs[i].op = "invalid"
                THEN [err |-> "unable to parse requirement", Items |-> <<>>]
                ELSE IF fieldSelector /= "" /\ eq = 0
                THEN [err |-> "invalid field selector", Items |-> <<>>]
                ELSE [err |-> NoErr, Items |-> SelectSeq(pods, Keep)]
    IN  Answer(ParseSelector(labelSelector), IndexOf(fieldSelector, "="))

\* Endpoints(ns).List(ctx, ListOptions{LabelSelector})
EndpointsList(labelSelector, ok) ==
    LET Answer(rs) ==
            LET Keep(ep) == SelectorMatches(rs, ep.labels)
            IN  IF ~ok THEN [err |-> "the server could not be reached", Items |-> <<>>]
                ELSE IF \E i \in 1..Len(rs) : rs[i].op = "invalid"
                THEN [err |-> "unable to parse requirement", Items |-> <<>>]
                ELSE [err |-> NoErr, Items |-> SelectSeq(endpoints, Keep)]
    IN  Answer(ParseSelector(labelSelector))

(***************************************************************************)
(* The resolver (portforward.go:211-288).  Each operator returns what the  *)
(* Go function returns, with api: the cluster API calls it made.  ok is    *)
(* whether the API call it makes succeeds, rnd the draw of the process's   *)
(* random source.                                                          *)
(***************************************************************************)
\* v1.PodRunning
PodRunning == "Running"

\* rand.Intn(n), from the draw rnd
Intn(rnd, n) == rnd % n

\* The pod list without a field selector.
NoFieldSelector == ""

\* portforward.go:243: the field selector of the pod list.
RunningFieldSelector == OneTermEqualSelector("status.phase", PodRunning)

\* The empty list not told from the others.
NoneFoundSkipped(items) == FALSE

\* portforward.go:249
NoneFound(items) == Len(items) = 0

\* Two items let through.
NotOneOrTwo(items) == Len(items) > 2

\* portforward.go:253
NotOne(items) == Len(items) /= 1

\* portforward.go:250
ErrNotFound(t, formatLabelSel) ==
    "could not find running " \o t \o " for selector: labels \"" \o formatLabelSel \o "\""

\* portforward.go:254
ErrAmbiguous(t, formatLabelSel) ==
    "ambiguous " \o t \o ": found more than one " \o t
    \o " for selector: labels \"" \o formatLabelSel \o "\""

\* portforward.go:239-258.  Listed is the function from the List call on:
\* its parameters are the locals formatLabelSel and pods, err.
getPodName(ok) ==
    LET Api(formatLabelSel, fieldSel) ==
            <<[call |-> "pods.List", LabelSelector |-> formatLabelSel,
               FieldSelector |-> fieldSel]>>
        Listed(formatLabelSel, fieldSel, resp) ==
            IF resp.err /= NoErr
            THEN [name |-> "", err |-> "listing pods in kubernetes: " \o resp.err,
                  api |-> Api(formatLabelSel, fieldSel)]
            ELSE IF NoneFound(resp.Items)
            THEN [name |-> "", err |-> ErrNotFound(resType, formatLabelSel),
                  api |-> Api(formatLabelSel, fieldSel)]
            ELSE IF NotOne(resp.Items)
            THEN [name |-> "", err |-> ErrAmbiguous(resType, formatLabelSel),
                  api |-> Api(formatLabelSel, fieldSel)]
            ELSE [name |-> resp.Items[1].name, err |-> NoErr,
                  api |-> Api(formatLabelSel, fieldSel)]
        List(formatLabelSel, fieldSel) ==
            Listed(formatLabelSel, fieldSel, PodsList(formatLabelSel, fieldSel, ok))
    IN  List(FormatLabelSelector(Labels), RunningFieldSelector)

\* The addresses of an endpoints object, subset by subset, in order.
RECURSIVE Flatten(_)
Flatten(subsets) ==
    IF Len(subsets) = 0 THEN <<>>
    ELSE subsets[1] \o Flatten(Tail(subsets))

Max(S) == CHOOSE x \in S : \A y \in S : x >= y

\* The loop of portforward.go:279-285 keeping the last address with a
\* TargetRef in place of returning at the first.
LastTargetRef(ep) ==
    LET Last(as) ==
            LET at == {i \in 1..Len(as) : as[i].TargetRef /= <<>>}
            IN  IF at = {} THEN <<>> ELSE as[Max(at)].TargetRef
    IN  Last(Flatten(ep.Subsets))

\* The loop of portforward.go:279-285: the TargetRef of the first address
\* that has one, nil when none has.
FirstTargetRef(ep) ==
    LET First(as) ==
            LET at == {i \in 1..Len(as) : as[i].TargetRef /= <<>>}
            IN  IF at = {} THEN <<>> ELSE as[Min(at)].TargetRef
    IN  First(Flatten(ep.Subsets))

\* getFromEndpoints going on to the other objects of the list when the
\* drawn one has no address with a TargetRef.
getFromEndpointsTryOthers(ok, rnd) ==
    LET Api(formatLabelSel) ==
            <<[call |-> "endpoints.List", LabelSelector |-> formatLabelSel,
               FieldSelector |-> ""]>>
        Scanned(formatLabelSel, randEp, refs) ==
            IF refs /= <<>>
            THEN [name |-> refs[1][1], err |-> NoErr, api |-> Api(formatLabelSel)]
            ELSE [name |-> "",
                  err |-> "could not find any pods attached to endpoint "
                          \o randEp.name,
                  api |-> Api(formatLabelSel)]
        Backed(items, i) ==
            SelectSeq([j \in 1..Len(items) |->
                          FirstTargetRef(items[((i + j - 2) % Len(items)) + 1])],
                      LAMBDA ref : ref /= <<>>)
        Listed(formatLabelSel, resp) ==
            IF resp.err /= NoErr
            THEN [name |-> "", err |-> "listing endpoints in kubernetes: " \o resp.err,
                  api |-> Api(formatLabelSel)]
            ELSE IF Len(resp.Items) = 0
            THEN [name |-> "",
                  err |-> "could not find running endpoints for selector: labels \""
                          \o formatLabelSel \o "\"",
                  api |-> Api(formatLabelSel)]
            ELSE Scanned(formatLabelSel,
                         resp.Items[Intn(rnd, Len(resp.Items)) + 1],
                         Backed(resp.Items, Intn(rnd, Len(resp.Items)) + 1))
        List(formatLabelSel) ==
            Listed(formatLabelSel, EndpointsList(formatLabelSel, ok))
    IN  List(FormatLabelSelector(Labels))

\* portforward.go:264-288.  Listed is the function from the List call on,
\* Picked from the draw of randEp on.
getFromEndpoints(ok, rnd) ==
    LET Api(formatLabelSel) ==
            <<[call |-> "endpoints.List", LabelSelector |-> formatLabelSel,
               FieldSelector |-> ""]>>
        Scanned(formatLabelSel, randEp, ref) ==
            IF ref /= <<>>
            THEN [name |-> ref[1], err |-> NoErr, api |-> Api(formatLabelSel)]
            ELSE [name |-> "",
                  err |-> "could not find any pods attached to endpoint "
                          \o randEp.name,
                  api |-> Api(formatLabelSel)]
        Picked(formatLabelSel, randEp) ==
            Scanned(formatLabelSel, randEp, FirstTargetRef(randEp))
        Listed(formatLabelSel, resp) ==
            IF resp.err /= NoErr
            THEN [name |-> "", err |-> "listing endpoints in kubernetes: " \o resp.err,
                  api |-> Api(formatLabelSel)]
            ELSE IF Len(resp.Items) = 0
            THEN [name |-> "",
                  err |-> "could not find running endpoints for selector: labels \""
                          \o formatLabelSel \o "\"",
                  api |-> Api(formatLabelSel)]
            ELSE Picked(formatLabelSel, resp.Items[Intn(rnd, Len(resp.Items)) + 1])
        List(formatLabelSel) ==
            Listed(formatLabelSel, EndpointsList(formatLabelSel, ok))
    IN  List(FormatLabelSelector(Labels))

\* The test of the selector left out.
NoLabelsNeverSpecified(ls) == FALSE

\* portforward.go:225
NoLabelsSpecified(ls) == DOMAIN ls.MatchLabels = {} /\ Len(ls.MatchExpressions) = 0

\* portforward.go:224-237
findResourceByLabels(ok, rnd) ==
    IF NoLabelsSpecified(Labels)
    THEN [name |-> "", err |-> "no " \o resType \o " labels specified", api |-> <<>>]
    ELSE CASE resType = "pod" -> getPodName(ok)
           [] resType = "service" -> getFromEndpoints(ok, rnd)
           [] OTHER -> [name |-> "", err |-> "unknown resource type", api |-> <<>>]

\* getResourceName with the test of p.Name left out.
getResourceNameByLabelsOnly(ok, rnd) ==
    LET Found(r) == [name |-> r.name, err |-> r.err, api |-> r.api, Name |-> r.name]
    IN  Found(findResourceByLabels(ok, rnd))

\* getResourceName returning what it found without the store into p.Name.
getResourceNameNotStored(ok, rnd) ==
    LET Found(r) == [name |-> r.name, err |-> r.err, api |-> r.api, Name |-> Name]
    IN  IF Name = ""
        THEN Found(findResourceByLabels(ok, rnd))
        ELSE [name |-> Name, err |-> NoErr, api |-> <<>>, Name |-> Name]

\* portforward.go:213-219.  Name: the value of p.Name when the call returns.
getResourceName(ok, rnd) ==
    LET Found(r) == [name |-> r.name, err |-> r.err, api |-> r.api, Name |-> r.name]
    IN  IF Name = ""
        THEN Found(findResourceByLabels(ok, rnd))
        ELSE [name |-> Name, err |-> NoErr, api |-> <<>>, Name |-> Name]

(***************************************************************************)
(* The listen port (portforward.go:159-187).  listen is what the system    *)
(* answers to net.Listen("tcp", "127.0.0.1:0") and to the listener's       *)
(* Close: [err, port, closeErr].                                           *)
(***************************************************************************)
getFreePort(listen) ==
    IF listen.err /= NoErr THEN [port |-> 0, err |-> listen.err]
    ELSE IF listen.closeErr /= NoErr THEN [port |-> 0, err |-> listen.closeErr]
    ELSE [port |-> listen.port, err |-> NoErr]

\* getListenPort with the test of p.ListenPort left out.
getListenPortAlwaysFree(listen) ==
    LET Probed(r) ==
            [port |-> r.port, err |-> r.err, ListenPort |-> r.port, probes |-> 1]
    IN  Probed(getFreePort(listen))

\* portforward.go:162-170.  ListenPort: the value of p.ListenPort when the
\* call returns; probes: the number of getFreePort calls made.
getListenPort(listen) ==
    IF ListenPort = 0
    THEN LET Probed(r) ==
                 [port |-> r.port, err |-> r.err, ListenPort |-> r.port, probes |-> 1]
         IN  Probed(getFreePort(listen))
    ELSE [port |-> ListenPort, err |-> NoErr, ListenPort |-> ListenPort, probes |-> 0]

(***************************************************************************)
(* Go channels.  A channel value is <<>> (nil) or <<c>>, c its state.      *)
(***************************************************************************)
\* make(chan T, n)
MakeChan(n) == <<[cap |-> n, buf |-> <<>>, closed |-> FALSE]>>

\* ch <- v can proceed: there is room in the buffer, or the channel is
\* unbuffered and a receiver waits.  A send on a nil channel never proceeds.
CanSend(ch, receiverWaits) ==
    /\ ch /= <<>>
    /\ \/ Len(ch[1].buf) < ch[1].cap
       \/ ch[1].cap = 0 /\ receiverWaits /\ Len(ch[1].buf) = 0

Send(ch, v) == <<[ch[1] EXCEPT !.buf = Append(@, v)]>>

\* <-ch can proceed: a value is there, or the channel is closed.
CanRecv(ch) == ch /= <<>> /\ (Len(ch[1].buf) > 0 \/ ch[1].closed)

Recv(ch) == IF Len(ch[1].buf) > 0 THEN <<[ch[1] EXCEPT !.buf = Tail(@)]>> ELSE ch

Close(ch) == <<[ch[1] EXCEPT !.closed = TRUE]>>

\* fmt.Errorf(prefix + ": %w", err)
Wrap(prefix, err) == prefix \o ": " \o (IF err = NoErr THEN "%!w(<nil>)" ELSE err)

(***************************************************************************)
(* Bounds and the inputs of the model.                                     *)
(***************************************************************************)
\* Stop calls per session.
MaxStops == 2
\* Pods in the namespace.
MaxPods == 3
\* Endpoints objects in the namespace.
MaxEndpoints == 2
\* Direct calls of the helpers per behaviour of SpecResolve.
MaxCalls == 2

\* The capacity Start gives its three channels (portforward.go:118-120).
ChanCap == 1

\* The stop channel made without a buffer.
StopChanUnbuffered == ChanCap - 1

\* portforward.go:118
StopChanCap == ChanCap

\* The error channel made without a buffer.
ErrChanUnbuffered == ChanCap - 1

\* portforward.go:120
ErrChanCap == ChanCap

NoLabels == <<>>

Selector(ml, mes) == [MatchLabels |-> ml, MatchExpressions |-> mes]
Expr(k, o, vs) == [Key |-> k, Operator |-> o, Values |-> vs]

NoSelector == Selector(NoLabels, <<>>)

Selectors ==
    { NoSelector,
      Selector([name |-> "flux"], <<>>),
      Selector(NoLabels, <<Expr("name", "In", <<"fluxd", "flux">>)>>),
      Selector([name |-> "flux"], <<Expr("app", "Exists", <<>>)>>),
      Selector(NoLabels, <<Expr("name", "NotIn", <<"lol">>),
                           Expr("app", "DoesNotExist", <<>>)>>),
      Selector(NoLabels, <<Expr("name", "In", <<>>)>>) }

Names == {"", "hello"}

\* The selectors of the sessions that have a Name.
NamedSelectors == {NoSelector, Selector([name |-> "flux"], <<>>)}

\* The pods a namespace may hold, but for their names.
PodKinds ==
    { [labels |-> [name |-> "flux"], phase |-> PodRunning],
      [labels |-> [name |-> "flux"], phase |-> "Pending"],
      [labels |-> [name |-> "fluxd", app |-> "web"], phase |-> PodRunning],
      [labels |-> NoLabels, phase |-> PodRunning] }

Digit(i) == Char("0123456789", i + 1)

\* The pod lists of up to n pods: pod i is named mypod<i>.
PodLists(n) ==
    UNION { { [i \in 1..k |-> [name |-> "mypod" \o Digit(i), labels |-> f[i].labels,
                               phase |-> f[i].phase]] :
              f \in [1..k -> PodKinds] } :
            k \in 0..n }

NilRef == <<>>
Ref(name) == <<name>>
Addr(ref) == [TargetRef |-> ref]

\* The endpoints objects a namespace may hold, but for their names.
EndpointKinds ==
    { [labels |-> [name |-> "flux"], Subsets |-> <<>>],
      [labels |-> [name |-> "flux"], Subsets |-> << <<Addr(NilRef)>> >>],
      [labels |-> [name |-> "flux"],
       Subsets |-> << <<Addr(NilRef)>>, <<Addr(Ref("mypod2")), Addr(Ref("mypod3"))>> >>],
      [labels |-> [name |-> "flux"],
       Subsets |-> << <<Addr(Ref("mypod3"))>>, <<Addr(Ref("mypod1"))>> >>],
      [labels |-> [name |-> "lol"], Subsets |-> << <<Addr(Ref("mypod4"))>> >>] }

\* The endpoints lists of up to n objects: object i is named ep<i>.
EndpointLists(n) ==
    UNION { { [i \in 1..k |-> [name |-> "ep" \o Digit(i), labels |-> f[i].labels,
                               Subsets |-> f[i].Subsets]] :
              f \in [1..k -> EndpointKinds] } :
            k \in 0..n }

\* What net.Listen and the listener's Close may answer.
Listens ==
    { [err |-> NoErr, port |-> 40001, closeErr |-> NoErr],
      [err |-> NoErr, port |-> 40002, closeErr |-> NoErr],
      [err |-> "listen tcp 127.0.0.1:0: bind: address not available", port |-> 0,
       closeErr |-> NoErr],
      [err |-> NoErr, port |-> 40001, closeErr |-> "close tcp: use of closed connection"] }

(***************************************************************************)
(* The lifecycle: one Start call per session (portforward.go:116-152),     *)
(* the goroutine it launches, and the Stop calls (portforward.go:154-157). *)
(* hist records, for the properties only: fired, the signals in the order  *)
(* they fired; seen, the signals that had fired when Start left its        *)
(* select; waited, whether Start returned from the select; cancelInWait,   *)
(* whether ctx was cancelled while Start waited with no signal fired;      *)
(* stopLate[i], whether Stop call i was made after Start had returned.     *)
(***************************************************************************)
StopCalls == 1..MaxStops

NoCall == [op |-> "none", n |-> 0]

InitHist == [fired |-> <<>>, seen |-> <<>>, waited |-> FALSE, cancelInWait |-> FALSE,
             stopLate |-> [i \in StopCalls |-> FALSE]]

InitLifecycle ==
    /\ stopChan = <<>>
    /\ readyChan = <<>>
    /\ errChan = <<>>
    /\ startPc = "created"
    /\ startRet = ""
    /\ workerPc = "none"
    /\ runnerErr = NoErr
    /\ stopPc = [i \in StopCalls |-> "idle"]
    /\ stopTarget = [i \in StopCalls |-> <<>>]
    /\ ctxDone = FALSE
    /\ apiLog = <<>>
    /\ portLog = <<>>
    /\ last = NoCall
    /\ hist = InitHist

\* The draws of the random source a call may see: only getFromEndpoints
\* draws (portforward.go:278).
Draws == IF resType = "service" /\ Len(endpoints) > 1 THEN 0..(Len(endpoints) - 1) ELSE {0}

\* Start beginning again after an error in place of returning it.
ReturnOrRetry(err) ==
    /\ startPc' = IF err = NoErr THEN "done" ELSE "created"
    /\ startRet' = err

\* Start returns err.
Return(err) ==
    /\ startPc' = "done"
    /\ startRet' = err

\* portforward.go:118-120
StartMake ==
    /\ startPc = "created"
    /\ stopChan' = MakeChan(StopChanCap)
    /\ readyChan' = MakeChan(ChanCap)
    /\ errChan' = MakeChan(ErrChanCap)
    /\ startPc' = "port"
    /\ UNCHANGED <<startRet, sessionVars, workerVars, stopVars, ctxDone, clusterVars,
                   apiLog, portLog, last, hist>>

\* The error of getListenPort not looked at.
StartGetListenPortUnchecked ==
    /\ startPc = "port"
    /\ \E listen \in Listens : \E r \in {getListenPort(listen)} :
              /\ ListenPort' = r.ListenPort
              /\ portLog' = IF r.probes = 1 THEN Append(portLog, listen) ELSE portLog
              /\ startPc' = "dialer"
    /\ UNCHANGED <<startRet, Name, Labels, resType, DestinationPort, chanVars,
                   workerVars, stopVars, ctxDone, clusterVars, apiLog, last, hist>>

\* portforward.go:122-125
StartGetListenPort ==
    /\ startPc = "port"
    /\ \E listen \in Listens : \E r \in {getListenPort(listen)} :
              /\ ListenPort' = r.ListenPort
              /\ portLog' = IF r.probes = 1 THEN Append(portLog, listen) ELSE portLog
              /\ IF r.err /= NoErr
                 THEN Return(Wrap("could not find a port to bind to", r.err))
                 ELSE startPc' = "dialer" /\ UNCHANGED startRet
    /\ UNCHANGED <<Name, Labels, resType, DestinationPort, chanVars, workerVars,
                   stopVars, ctxDone, clusterVars, apiLog, last, hist>>

\* p.dialer (portforward.go:190-209): rt is the error of spdy.RoundTripperFor.
dialer(ok, rnd, rt) ==
    LET Named(r) ==
            IF r.err /= NoErr
            THEN [err |-> Wrap("could not get " \o resType \o " name", r.err),
                  api |-> r.api, Name |-> r.Name]
            ELSE IF rt /= NoErr
            THEN [err |-> Wrap("could not create round tripper", rt),
                  api |-> r.api, Name |-> r.Name]
            ELSE [err |-> NoErr, api |-> r.api, Name |-> r.Name]
    IN  Named(getResourceName(ok, rnd))

RoundTripperErrors == {NoErr, "unable to load root certificates"}

\* portforward.go:127-130
StartDialer ==
    /\ startPc = "dialer"
    /\ \E ok \in BOOLEAN, rnd \in Draws, rt \in RoundTripperErrors :
          \E r \in {dialer(ok, rnd, rt)} :
              /\ Name' = r.Name
              /\ apiLog' = apiLog \o r.api
              /\ IF r.err /= NoErr
                 THEN Return(Wrap("could not create a dialer", r.err))
                 ELSE startPc' = "new" /\ UNCHANGED startRet
    /\ UNCHANGED <<Labels, resType, ListenPort, DestinationPort, chanVars, workerVars,
                   stopVars, ctxDone, clusterVars, portLog, last, hist>>

NewErrors == {NoErr, "error parsing local port"}

\* portforward.go:132-140: e is the error of portforward.New.
StartNew ==
    /\ startPc = "new"
    /\ \E e \in NewErrors :
          IF e /= NoErr
          THEN Return(Wrap("could not port forward into " \o resType, e))
          ELSE startPc' = "launch" /\ UNCHANGED startRet
    /\ UNCHANGED <<sessionVars, chanVars, workerVars, stopVars, ctxDone, clusterVars,
                   apiLog, portLog, last, hist>>

\* portforward.go:142-144: the go statement.
StartLaunch ==
    /\ startPc = "launch"
    /\ workerPc' = "dial"
    /\ startPc' = "wait"
    /\ UNCHANGED <<startRet, runnerErr, sessionVars, chanVars, stopVars, ctxDone,
                   clusterVars, apiLog, portLog, last, hist>>

\* Start giving up its wait with an error while no error was delivered.
StartRecvErrUndelivered ==
    /\ startPc = "wait"
    /\ Return(Wrap("could not create port forward", "timed out"))
    /\ hist' = [hist EXCEPT !.seen = hist.fired, !.waited = TRUE]
    /\ UNCHANGED <<sessionVars, chanVars, workerVars, stopVars, ctxDone,
                   clusterVars, apiLog, portLog, last>>

\* portforward.go:147-148: the select takes the error.
StartRecvErr ==
    /\ startPc = "wait"
    /\ CanRecv(errChan)
    /\ Return(Wrap("could not create port forward", Head(errChan[1].buf)))
    /\ errChan' = Recv(errChan)
    /\ hist' = [hist EXCEPT !.seen = hist.fired, !.waited = TRUE]
    /\ UNCHANGED <<sessionVars, stopChan, readyChan, workerVars, stopVars, ctxDone,
                   clusterVars, apiLog, portLog, last>>

\* The ready arm of the select taken without a signal on the channel.
StartRecvReadyUnsignalled ==
    /\ startPc = "wait"
    /\ Return(NoErr)
    /\ hist' = [hist EXCEPT !.seen = hist.fired, !.waited = TRUE]
    /\ UNCHANGED <<sessionVars, chanVars, workerVars, stopVars, ctxDone,
                   clusterVars, apiLog, portLog, last>>

\* portforward.go:149-150: the select takes the ready signal.
StartRecvReady ==
    /\ startPc = "wait"
    /\ CanRecv(readyChan)
    /\ Return(NoErr)
    /\ readyChan' = Recv(readyChan)
    /\ hist' = [hist EXCEPT !.seen = hist.fired, !.waited = TRUE]
    /\ UNCHANGED <<sessionVars, stopChan, errChan, workerVars, stopVars, ctxDone,
                   clusterVars, apiLog, portLog, last>>

(***************************************************************************)
(* pf.ForwardPorts() in the goroutine of portforward.go:142-144: the       *)
(* runner dials and listens ("dial"), closes the ready channel, then       *)
(* waits for the stop signal or the loss of the connection ("forward").    *)
(***************************************************************************)
\* ForwardPorts fails before the tunnel is ready.
RunnerFail ==
    /\ workerPc = "dial"
    /\ runnerErr' = "error upgrading connection"
    /\ workerPc' = "send"
    /\ UNCHANGED <<sessionVars, chanVars, startVars, stopVars, ctxDone, clusterVars,
                   apiLog, portLog, last, hist>>

\* The runner signals readiness on the ready channel it was given.
RunnerReady ==
    /\ workerPc = "dial"
    /\ readyChan' = Close(readyChan)
    /\ workerPc' = "forward"
    /\ hist' = [hist EXCEPT !.fired = Append(@, "ready")]
    /\ UNCHANGED <<sessionVars, stopChan, errChan, startVars, runnerErr, stopVars,
                   ctxDone, clusterVars, apiLog, portLog, last>>

\* The runner given a nil stop channel: its receive never proceeds.
RunnerStopOnNil ==
    /\ workerPc = "forward"
    /\ CanRecv(<<>>)
    /\ runnerErr' = NoErr
    /\ workerPc' = "send"
    /\ UNCHANGED <<sessionVars, chanVars, startVars, stopVars, ctxDone,
                   clusterVars, apiLog, portLog, last, hist>>

\* The runner receives from the stop channel it was given and returns nil.
RunnerStop ==
    /\ workerPc = "forward"
    /\ CanRecv(stopChan)
    /\ stopChan' = Recv(stopChan)
    /\ runnerErr' = NoErr
    /\ workerPc' = "send"
    /\ UNCHANGED <<sessionVars, readyChan, errChan, startVars, stopVars, ctxDone,
                   clusterVars, apiLog, portLog, last, hist>>

\* The connection to the pod is lost: ForwardPorts returns the error.
RunnerLost ==
    /\ workerPc = "forward"
    /\ runnerErr' = "lost connection to pod"
    /\ workerPc' = "send"
    /\ UNCHANGED <<sessionVars, chanVars, startVars, stopVars, ctxDone, clusterVars,
                   apiLog, portLog, last, hist>>

\* portforward.go:143: errChan <- pf.ForwardPorts(), then the goroutine ends.
WorkerSend ==
    /\ workerPc = "send"
    /\ CanSend(errChan, startPc = "wait")
    /\ errChan' = Send(errChan, runnerErr)
    /\ workerPc' = "exited"
    /\ hist' = [hist EXCEPT !.fired = Append(@, "err")]
    /\ UNCHANGED <<sessionVars, stopChan, readyChan, startVars, runnerErr, stopVars,
                   ctxDone, clusterVars, apiLog, portLog, last>>

\* portforward.go:155-156: Stop call i reads p.stopChan.  Calls are numbered
\* in the order they are made; a call may be made while another is blocked.
StopCall(i) ==
    /\ stopPc[i] = "idle"
    /\ IF i = 1 THEN TRUE ELSE stopPc[i - 1] /= "idle"
    /\ stopPc' = [stopPc EXCEPT ![i] = "send"]
    /\ stopTarget' = [stopTarget EXCEPT ![i] = IF stopChan = <<>> THEN <<>> ELSE <<"stopChan">>]
    /\ hist' = [hist EXCEPT !.stopLate[i] = (startPc = "done")]
    /\ UNCHANGED <<sessionVars, chanVars, startVars, workerVars, ctxDone, clusterVars,
                   apiLog, portLog, last>>

\* Stop call i can complete its send.
StopCanSend(i) ==
    /\ stopTarget[i] /= <<>>
    /\ CanSend(stopChan, workerPc = "forward")

\* portforward.go:156: p.stopChan <- struct{}{}, then Stop returns.
StopSend(i) ==
    /\ stopPc[i] = "send"
    /\ StopCanSend(i)
    /\ stopChan' = Send(stopChan, "{}")
    /\ stopPc' = [stopPc EXCEPT ![i] = "done"]
    /\ UNCHANGED <<sessionVars, readyChan, errChan, startVars, workerVars, stopTarget,
                   ctxDone, clusterVars, apiLog, portLog, last, hist>>

\* The caller's context is cancelled.
CtxCancel ==
    /\ ~ctxDone
    /\ ctxDone' = TRUE
    /\ hist' = [hist EXCEPT !.cancelInWait = (startPc = "wait" /\ hist.fired = <<>>)]
    /\ UNCHANGED <<sessionVars, chanVars, startVars, workerVars, stopVars, clusterVars,
                   apiLog, portLog, last>>

\* The sessions and clusters the lifecycle is followed on.
LifecycleSelectors == NamedSelectors

LifecyclePods ==
    { <<>>,
      << [name |-> "mypod1", labels |-> [name |-> "flux"], phase |-> PodRunning] >> }

LifecycleEndpoints ==
    { << [name |-> "ep1", labels |-> [name |-> "flux"],
          Subsets |-> << <<Addr(NilRef), Addr(Ref("mypod1"))>> >>] >> }

Init ==
    /\ Name \in Names
    /\ Labels \in LifecycleSelectors
    /\ resType \in {"pod", "service"}
    /\ ListenPort \in {0, 8080}
    /\ DestinationPort = 80
    /\ pods \in LifecyclePods
    /\ endpoints \in LifecycleEndpoints
    /\ InitLifecycle

Next ==
    \/ StartMake
    \/ StartGetListenPort
    \/ StartDialer
    \/ StartNew
    \/ StartLaunch
    \/ StartRecvErr
    \/ StartRecvReady
    \/ RunnerFail
    \/ RunnerReady
    \/ RunnerStop
    \/ RunnerLost
    \/ WorkerSend
    \/ \E i \in StopCalls : StopCall(i)
    \/ \E i \in StopCalls : StopSend(i)
    \/ CtxCancel

Spec == Init /\ [][Next]_vars

\* The goroutines are scheduled fairly: a channel operation that stays
\* possible is made.  The loss of the connection and the calls of the
\* caller are not required to happen.
Fairness ==
    /\ WF_vars(RunnerStop)
    /\ WF_vars(WorkerSend)
    /\ \A i \in StopCalls : WF_vars(StopSend(i))

SpecFair == Spec /\ Fairness

(***************************************************************************)
(* The resolver called directly, as the package's tests call it, on every  *)
(* session and cluster of the bounds.                                      *)
(***************************************************************************)
Called(op, r, ok, rnd) ==
    [op |-> op, n |-> last.n + 1, Name |-> Name, name |-> r.name, err |-> r.err,
     api |-> r.api, ok |-> ok, rnd |-> rnd]

CallGetResourceName ==
    /\ last.n < MaxCalls
    /\ \E ok \in BOOLEAN, rnd \in Draws :
          \E r \in {getResourceName(ok, rnd)} :
              /\ Name' = r.Name
              /\ apiLog' = apiLog \o r.api
              /\ last' = Called("getResourceName", r, ok, rnd)
    /\ UNCHANGED <<Labels, resType, ListenPort, DestinationPort, chanVars, startVars,
                   workerVars, stopVars, ctxDone, clusterVars, portLog, hist>>

CallFindResourceByLabels ==
    /\ last.n < MaxCalls
    /\ \E ok \in BOOLEAN, rnd \in Draws :
          \E r \in {findResourceByLabels(ok, rnd)} :
              /\ apiLog' = apiLog \o r.api
              /\ last' = Called("findResourceByLabels", r, ok, rnd)
    /\ UNCHANGED <<sessionVars, chanVars, startVars, workerVars, stopVars, ctxDone,
                   clusterVars, portLog, hist>>

InitResolve ==
    /\ Name \in Names
    /\ Labels \in IF Name = "" THEN Selectors ELSE NamedSelectors
    /\ resType \in {"pod", "service"}
    /\ ListenPort = 0
    /\ DestinationPort = 80
    /\ pods \in IF resType = "pod" THEN PodLists(MaxPods) ELSE {<<>>}
    /\ endpoints \in IF resType = "service" THEN EndpointLists(MaxEndpoints) ELSE {<<>>}
    /\ InitLifecycle

NextResolve ==
    \/ CallGetResourceName
    \/ CallFindResourceByLabels

SpecResolve == InitResolve /\ [][NextResolve]_vars

(***************************************************************************)
(* The caching helpers called again and again on one session, as the       *)
(* package's tests call them, while the cluster changes between the calls. *)
(***************************************************************************)
CalledPort(r, listen) ==
    [op |-> "getListenPort", n |-> last.n + 1, ListenPort |-> ListenPort,
     port |-> r.port, err |-> r.err, probes |-> r.probes, listen |-> listen]

CallGetListenPort ==
    /\ last.n < MaxCalls
    /\ \E listen \in Listens : \E r \in {getListenPort(listen)} :
              /\ ListenPort' = r.ListenPort
              /\ portLog' = IF r.probes = 1 THEN Append(portLog, listen) ELSE portLog
              /\ last' = CalledPort(r, listen)
    /\ UNCHANGED <<Name, Labels, resType, DestinationPort, chanVars, startVars,
                   workerVars, stopVars, ctxDone, clusterVars, apiLog, hist>>

\* The pod lists and endpoints lists the cluster goes through.
CachePods ==
    { <<>>,
      << [name |-> "mypod1", labels |-> [name |-> "flux"], phase |-> PodRunning] >>,
      << [name |-> "mypod2", labels |-> [name |-> "flux"], phase |-> PodRunning] >>,
      << [name |-> "mypod1", labels |-> [name |-> "flux"], phase |-> PodRunning],
         [name |-> "mypod2", labels |-> [name |-> "flux"], phase |-> PodRunning] >> }

CacheEndpoints ==
    { <<>>,
      << [name |-> "ep1", labels |-> [name |-> "flux"],
          Subsets |-> << <<Addr(Ref("mypod1"))>> >>] >>,
      << [name |-> "ep1", labels |-> [name |-> "flux"],
          Subsets |-> << <<Addr(NilRef), Addr(Ref("mypod2"))>> >>] >> }

\* Pods and endpoints come and go in the cluster.
ClusterChange ==
    /\ \E ps \in CachePods, es \in CacheEndpoints :
          /\ <<ps, es>> /= <<pods, endpoints>>
          /\ pods' = ps
          /\ endpoints' = es
    /\ UNCHANGED <<sessionVars, chanVars, startVars, workerVars, stopVars, ctxDone,
                   apiLog, portLog, last, hist>>

InitCache ==
    /\ Name \in Names
    /\ Labels \in NamedSelectors
    /\ resType \in {"pod", "service"}
    /\ ListenPort \in {0, 8080}
    /\ DestinationPort = 80
    /\ pods \in CachePods
    /\ endpoints \in CacheEndpoints
    /\ InitLifecycle

NextCache ==
    \/ CallGetListenPort
    \/ CallGetResourceName
    \/ ClusterChange

SpecCache == InitCache /\ [][NextCache]_vars

(***************************************************************************)
(* Properties of the resolver, under SpecResolve.  They state what a       *)
(* selector means on the LabelSelector itself, not on its text.            *)
(***************************************************************************)
Range(f) == {f[i] : i \in DOMAIN f}

\* The labels ls satisfy the selector ps.
Satisfies(ls, ps) ==
    /\ \A k \in DOMAIN ps.MatchLabels : k \in DOMAIN ls /\ ls[k] = ps.MatchLabels[k]
    /\ \A e \in Range(ps.MatchExpressions) :
          CASE e.Operator = "In" -> e.Key \in DOMAIN ls /\ ls[e.Key] \in Range(e.Values)
            [] e.Operator = "NotIn" ->
                 e.Key \notin DOMAIN ls \/ ls[e.Key] \notin Range(e.Values)
            [] e.Operator = "Exists" -> e.Key \in DOMAIN ls
            [] e.Operator = "DoesNotExist" -> e.Key \notin DOMAIN ls

\* The selector has criteria, each with the values its operator takes.
WellFormed(ps) ==
    /\ ps /= NoSelector
    /\ \A e \in Range(ps.MatchExpressions) :
          IF e.Operator \in {"In", "NotIn"} THEN e.Values /= <<>> ELSE e.Values = <<>>

\* The text the platform's formatter gives the selectors of the model.
CanonicalText(ps) ==
    CASE ps = Selector([name |-> "flux"], <<>>) -> "name=flux"
      [] ps = Selector(NoLabels, <<Expr("name", "In", <<"fluxd", "flux">>)>>) ->
           "name in (flux,fluxd)"
      [] ps = Selector([name |-> "flux"], <<Expr("app", "Exists", <<>>)>>) ->
           "app,name=flux"
      [] ps = Selector(NoLabels, <<Expr("name", "NotIn", <<"lol">>),
                                   Expr("app", "DoesNotExist", <<>>)>>) ->
           "!app,name notin (lol)"

\* The pods that match the selector, and those of them that are running.
Matching == {i \in 1..Len(pods) : Satisfies(pods[i].labels, Labels)}
RunningMatching == {i \in Matching : pods[i].phase = "Running"}

\* The last call resolved a pod by a well-formed selector and its pod list
\* was answered.
PodListAnswered ==
    /\ \/ last.op = "findResourceByLabels"
       \/ last.op = "getResourceName" /\ last.Name = ""
    /\ resType = "pod"
    /\ WellFormed(Labels)
    /\ last.ok

\* A call of getResourceName on a session without a Name, or of
\* findResourceByLabels: a resolution by labels.
ResolvedByLabels ==
    \/ last.op = "findResourceByLabels"
    \/ last.op = "getResourceName" /\ last.Name = ""

\* C5: getResourceName on a session whose Name is set returns that Name and
\* no error, makes no cluster API call and leaves Name as it is, whatever
\* the resource type and the selector.
C5_NameWins ==
    (last.op = "getResourceName" /\ last.Name /= "") =>
        /\ last.name = last.Name
        /\ last.err = NoErr
        /\ last.api = <<>>
        /\ Name = last.Name

\* A session with a Name and a selector that a running pod matches: the
\* call returned the Name.
C5_Witness ==
    /\ last.op = "getResourceName"
    /\ last.Name = "hello"
    /\ last.name = "hello"
    /\ resType = "pod"
    /\ Labels = Selector([name |-> "flux"], <<>>)
    /\ RunningMatching /= {}

\* C6: with a non-empty selector, when exactly one pod both matches the
\* selector and is running, findResourceByLabels returns its name and no
\* error; and a name it returns is always that of a running pod that
\* matches, however many pods match without running.
C6_OneRunningPod ==
    PodListAnswered =>
        /\ Cardinality(RunningMatching) = 1 =>
              /\ last.err = NoErr
              /\ \A i \in RunningMatching : last.name = pods[i].name
        /\ last.err = NoErr => \E i \in RunningMatching : last.name = pods[i].name

\* Two pods match, the first is not running: the second is returned.
C6_Witness ==
    /\ PodListAnswered
    /\ Cardinality(Matching) = 2
    /\ RunningMatching = {2}
    /\ Labels = Selector(NoLabels, <<Expr("name", "In", <<"fluxd", "flux">>)>>)
    /\ last.name = "mypod2"
    /\ last.err = NoErr

\* C7 (as stated): whenever two or more pods match the selector, the
\* ambiguous error and an empty name are returned.
C7_TwoMatching ==
    (PodListAnswered /\ Cardinality(Matching) >= 2) =>
        /\ last.name = ""
        /\ last.err = "ambiguous pod: found more than one pod for selector: labels \""
                      \o CanonicalText(Labels) \o "\""

\* C7 (amended): whenever two or more running pods match the selector, the
\* ambiguous error, naming the resource type twice and the canonical
\* selector text, and an empty name are returned.
C7_TwoRunningMatching ==
    (PodListAnswered /\ Cardinality(RunningMatching) >= 2) =>
        /\ last.name = ""
        /\ last.err = "ambiguous pod: found more than one pod for selector: labels \""
                      \o CanonicalText(Labels) \o "\""

\* Two running pods labelled name=flux and a third pod.
C7_Witness ==
    /\ PodListAnswered
    /\ Len(pods) = 3
    /\ RunningMatching = {1, 2}
    /\ last.err = "ambiguous pod: found more than one pod for selector: labels \"name=flux\""

\* C8: whenever no running pod matches the selector, the not-found error,
\* with the resource type and the canonical selector text, and an empty
\* name are returned.
C8_NoRunningPod ==
    (PodListAnswered /\ RunningMatching = {}) =>
        /\ last.name = ""
        /\ last.err = "could not find running pod for selector: labels \""
                      \o CanonicalText(Labels) \o "\""

\* An In expression that only a pod that is not running matches.
C8_Witness ==
    /\ PodListAnswered
    /\ Matching /= {}
    /\ last.err = "could not find running pod for selector: labels \"name in (flux,fluxd)\""

\* C9: without a Name and without selector criteria, resolution fails with
\* the no-selector error for both resource types, makes no cluster API
\* call, and Name stays empty.
C9_NoSelector ==
    (ResolvedByLabels /\ Labels = NoSelector) =>
        /\ last.name = ""
        /\ last.err \in {"no pod labels specified", "no service labels specified"}
        /\ last.err = "no " \o resType \o " labels specified"
        /\ last.api = <<>>
        /\ last.op = "getResourceName" => Name = ""

\* A service session without Name and selector in a cluster that has
\* endpoints.
C9_Witness ==
    /\ last.op = "getResourceName"
    /\ last.Name = ""
    /\ Labels = NoSelector
    /\ resType = "service"
    /\ Len(endpoints) > 0
    /\ last.err = "no service labels specified"

\* The endpoints objects that match the selector, in list order.
MatchingEndpoints == SelectSeq(endpoints, LAMBDA ep : Satisfies(ep.labels, Labels))

\* Address j of subset i of ep comes before address l of subset k.
Before(i, j, k, l) == i < k \/ (i = k /\ j < l)

\* name is the backing pod of the first address of ep, subsets in order and
\* addresses in order, that has a backing reference.
IsFirstBacked(ep, name) ==
    \E i \in 1..Len(ep.Subsets) : \E j \in 1..Len(ep.Subsets[i]) :
        /\ ep.Subsets[i][j].TargetRef = <<name>>
        /\ \A k \in 1..Len(ep.Subsets) : \A l \in 1..Len(ep.Subsets[k]) :
              Before(k, l, i, j) => ep.Subsets[k][l].TargetRef = <<>>

Unbacked(ep) ==
    \A i \in 1..Len(ep.Subsets) : \A j \in 1..Len(ep.Subsets[i]) :
        ep.Subsets[i][j].TargetRef = <<>>

\* The last call resolved a service by a well-formed selector and its
\* endpoints list was answered.
EndpointsListAnswered ==
    /\ ResolvedByLabels
    /\ resType = "service"
    /\ WellFormed(Labels)
    /\ last.ok

\* C16: a service resolution with no matching endpoints object fails with
\* the not-found error and the canonical selector text; and when the
\* object the draw picks among the matching ones has no backed address in
\* any subset, it fails with the error naming that object, whatever the
\* other matching objects hold.
C16_UnbackedEndpoint ==
    EndpointsListAnswered =>
        /\ Len(MatchingEndpoints) = 0 =>
              /\ last.name = ""
              /\ last.err = "could not find running endpoints for selector: labels \""
                            \o CanonicalText(Labels) \o "\""
        /\ Len(MatchingEndpoints) > 0 =>
              \A ep \in {MatchingEndpoints[(last.rnd % Len(MatchingEndpoints)) + 1]} :
                  Unbacked(ep) =>
                      /\ last.name = ""
                      /\ last.err = "could not find any pods attached to endpoint "
                                    \o ep.name

\* Two objects match; the draw picks the first, which has one address
\* without a reference, while the second has backed addresses.
C16_Witness ==
    /\ EndpointsListAnswered
    /\ Len(MatchingEndpoints) = 2
    /\ last.rnd = 0
    /\ Unbacked(endpoints[1])
    /\ Len(endpoints[1].Subsets) = 1
    /\ ~Unbacked(endpoints[2])
    /\ last.err = "could not find any pods attached to endpoint ep1"

(***************************************************************************)
(* Properties of the lifecycle, under Spec.                                *)
(***************************************************************************)
\* Start has returned from its select.
ReturnedFromWait == startPc = "done" /\ hist.waited

\* A value was sent on the stop channel: it is in the buffer, or the runner
\* received it and returned.
StopSignalled ==
    /\ stopChan /= <<>>
    /\ \/ Len(stopChan[1].buf) > 0
       \/ workerPc \in {"send", "exited"} /\ runnerErr = NoErr

\* C1 (as stated): Start returns from its wait only after a signal fired,
\* and the signal that fired first decides: nil when the runner signalled
\* ready before the error was delivered, the wrapped error when the error
\* was delivered first.
C1_FirstSignalWins ==
    ReturnedFromWait =>
        /\ hist.seen /= <<>>
        /\ Head(hist.seen) = "ready" => startRet = NoErr
        /\ Head(hist.seen) = "err" =>
              startRet = Wrap("could not create port forward", runnerErr)

\* C1 (amended): Start returns from its wait only after a signal fired;
\* it returns nil only if ready had fired and the wrapped error only if the
\* error had been delivered, so a signal that alone had fired decides; when
\* both had fired either result is possible.
C1_AFiredSignalWins ==
    ReturnedFromWait =>
        /\ hist.seen /= <<>>
        /\ startRet = NoErr => "ready" \in Range(hist.seen)
        /\ startRet /= NoErr =>
              /\ "err" \in Range(hist.seen)
              /\ startRet = Wrap("could not create port forward", runnerErr)
        /\ hist.seen = <<"ready">> => startRet = NoErr
        /\ hist.seen = <<"err">> => startRet /= NoErr

\* Ready fired, then the error was delivered, both before Start took its
\* select; Start returned the error.
C1_Witness ==
    /\ ReturnedFromWait
    /\ hist.seen = <<"ready", "err">>
    /\ startRet = "could not create port forward: lost connection to pod"

\* No Stop call of the session other than call i has been made.
OnlyStopCall(i) == \A j \in StopCalls \ {i} : stopPc[j] = "idle"

\* Every Stop call made so far was made after Start had returned.
AllStopsLate == \A j \in StopCalls : stopPc[j] /= "idle" => hist.stopLate[j]

\* C2: when ctx is cancelled while Start waits and neither signal has
\* fired, Start does not remain blocked until the runner signals: it can
\* leave its wait; and if it returns with no signal fired, it returns a
\* cancellation error after a send on the stop channel.
C2_CancelEndsTheWait ==
    /\ (startPc = "wait" /\ hist.cancelInWait /\ hist.fired = <<>>) =>
           ENABLED (StartRecvErr \/ StartRecvReady)
    /\ (ReturnedFromWait /\ hist.cancelInWait /\ hist.seen = <<>>) =>
           /\ IndexOf(startRet, "context canceled") > 0
           /\ StopSignalled

\* C3: the one Stop call of a session, made after Start has returned, is
\* never blocked at its send, and once it has returned its value is on the
\* stop channel or was received by the runner; so with the worker running
\* as with the worker gone.
C3_StopNeverBlocks ==
    (hist.stopLate[1] /\ OnlyStopCall(1)) =>
        /\ stopPc[1] = "send" => ENABLED StopSend(1)
        /\ stopPc[1] = "done" => StopSignalled

\* The runner failed, the worker has exited, Start has returned the error;
\* then Stop was called and has returned: its value stays in the buffer.
C3_Witness ==
    /\ hist.stopLate[1]
    /\ OnlyStopCall(1)
    /\ stopPc[1] = "done"
    /\ workerPc = "exited"
    /\ runnerErr /= NoErr
    /\ Len(stopChan[1].buf) = 1

\* C4: of the Stop calls of a session, all made after Start has returned,
\* none is blocked at its send once the worker has exited, whichever call
\* of the session it is.
C4_EveryStopReturns ==
    \A i \in StopCalls :
        (stopPc[i] = "send" /\ AllStopsLate /\ workerPc = "exited") =>
            ENABLED StopSend(i)

\* net.Listen and the listener's Close both succeeded.
Discovered(listen) == listen.err = NoErr /\ listen.closeErr = NoErr

\* s begins with prefix.
HasPrefix(s, prefix) == Len(s) >= Len(prefix) /\ SubSeq(s, 1, Len(prefix)) = prefix

\* C12 (as stated): no failure of a stage is swallowed.  A failed port
\* discovery is what Start returns, wrapped; and once the worker has
\* delivered an error with which the runner terminated, Start, when it has
\* returned, has returned that error, wrapped, be the failure before or
\* after the ready signal.
C12_NoFailureSwallowed ==
    startPc = "done" =>
        /\ (portLog /= <<>> /\ ~Discovered(portLog[1])) =>
              HasPrefix(startRet, "could not find a port to bind to: ")
        /\ (workerPc = "exited" /\ runnerErr /= NoErr) =>
              startRet = Wrap("could not create port forward", runnerErr)

\* C13: the stages of Start run in the order listen port, target, dialer,
\* runner, launch, each only after the one before it succeeded: a cluster
\* API call is made only with a listen port resolved, a worker exists only
\* with a listen port and a target name resolved; and when Start returns
\* without having waited it returns the error of the stage that failed,
\* with no worker launched and nothing done by a later stage.
C13_StagesInOrder ==
    /\ apiLog /= <<>> => ListenPort /= 0
    /\ workerPc /= "none" =>
          /\ ListenPort /= 0
          /\ Name /= ""
          /\ startPc \in {"wait", "done"}
    /\ (startPc = "done" /\ ~hist.waited) =>
          /\ workerPc = "none"
          /\ hist.fired = <<>>
          /\ \/ /\ HasPrefix(startRet, "could not find a port to bind to: ")
                /\ ListenPort = 0
                /\ apiLog = <<>>
             \/ /\ HasPrefix(startRet, "could not create a dialer: ")
                /\ ListenPort /= 0
             \/ /\ HasPrefix(startRet, "could not port forward into " \o resType \o ": ")
                /\ ListenPort /= 0
                /\ Name /= ""

\* The port was discovered, then no running pod was found for the
\* selector: Start returned that error and launched no worker.
C13_Witness ==
    /\ startPc = "done"
    /\ Len(portLog) = 1
    /\ Len(apiLog) = 1
    /\ startRet = "could not create a dialer: could not get pod name: "
                  \o "could not find running pod for selector: labels \"name=flux\""
    /\ workerPc = "none"

\* The state of the session as its caller sees it: Created until Start is
\* called, Starting until Start returns, then Failed when Start returned an
\* error, Ready when it returned nil, Stopped once Stop has been called on
\* the ready session.
SessionState ==
    IF startPc = "created" THEN "Created"
    ELSE IF startPc /= "done" THEN "Starting"
    ELSE IF startRet /= NoErr THEN "Failed"
    ELSE IF \E i \in StopCalls : hist.stopLate[i] THEN "Stopped"
    ELSE "Ready"

LifecycleSteps ==
    { <<"Created", "Starting">>, <<"Starting", "Ready">>, <<"Starting", "Failed">>,
      <<"Ready", "Stopped">> }

\* C14: every step that changes the state of the session is one of
\* Created -> Starting, Starting -> Ready, Starting -> Failed and
\* Ready -> Stopped; what Start returned never changes, so the session
\* leaves Starting once, for Ready or for Failed and never both; and the
\* session is Ready or Stopped, which is when Start returned nil, only with
\* the ready signal fired.
C14_Lifecycle ==
    [][ /\ SessionState' /= SessionState =>
              <<SessionState, SessionState'>> \in LifecycleSteps
        /\ startPc = "done" => startPc' = "done" /\ startRet' = startRet
        /\ SessionState' \in {"Ready", "Stopped"} =>
              /\ startRet' = NoErr
              /\ "ready" \in Range(hist'.fired)
        /\ SessionState' = "Failed" => startRet' \notin {"", NoErr} ]_vars

\* A session that went through Ready and was stopped: the runner has seen
\* the stop signal and the worker has ended.
C14_Witness ==
    /\ SessionState = "Stopped"
    /\ workerPc = "exited"
    /\ runnerErr = NoErr
    /\ stopPc[1] = "done"

\* C15: under SpecFair, once Start has returned nil and Stop is then called
\* for the first time, the worker eventually ends, the runner having
\* returned on the stop signal, or on the loss of the connection when that
\* came first.
C15_StopEndsWorker ==
    (startPc = "done" /\ startRet = NoErr /\ hist.stopLate[1])
        ~> (workerPc = "exited" /\ runnerErr \in {NoErr, "lost connection to pod"})

\* Stop was called on the ready session: the runner took the value from
\* the stop channel and returned nil, and the worker has ended.
C15_Witness ==
    /\ startPc = "done"
    /\ startRet = NoErr
    /\ hist.stopLate[1]
    /\ OnlyStopCall(1)
    /\ stopPc[1] = "done"
    /\ workerPc = "exited"
    /\ runnerErr = NoErr
    /\ Len(stopChan[1].buf) = 0

\* C17 (as stated): a Stop call made before Start has returned nil, also
\* one made before Start was called, when no stop channel exists, is not
\* blocked at its send; and once it has returned the session is as it was:
\* no value waits on the stop channel for the runner.
C17_EarlyStopIsNoOp ==
    \A i \in StopCalls :
        (~hist.stopLate[i] /\ OnlyStopCall(i)) =>
            /\ stopPc[i] = "send" => ENABLED StopSend(i)
            /\ (stopPc[i] = "done" /\ workerPc \in {"none", "dial"}) =>
                  Len(stopChan[1].buf) = 0

\* C18: whenever Start has returned an error, the runner of its worker is
\* not running: no worker was launched, or the worker has delivered the
\* runner's completion and ended.  A worker whose runner still runs goes
\* with a Start that has not returned or has returned nil.
C18_NoWorkerAfterError ==
    /\ (startPc = "done" /\ startRet /= NoErr) =>
          /\ workerPc \in {"none", "exited"}
          /\ workerPc = "none" <=> ~hist.waited
          /\ workerPc = "exited" =>
                startRet = Wrap("could not create port forward", runnerErr)
    /\ (startPc = "done" /\ workerPc \in {"dial", "forward", "send"}) =>
          startRet = NoErr

\* The runner failed to dial, the worker delivered the error and ended,
\* and Start returned it.
C18_Witness ==
    /\ startPc = "done"
    /\ startRet = "could not create port forward: error upgrading connection"
    /\ workerPc = "exited"
    /\ hist.seen = <<"err">>

\* C19: the worker is never blocked at its send on the error channel: the
\* buffer of capacity 1 is empty whenever the runner has returned, also
\* when Start has already returned and nothing will receive; and the
\* error channel is written at most once.
C19_WorkerSendNeverBlocks ==
    /\ workerPc = "send" => ENABLED WorkerSend
    /\ Cardinality({i \in 1..Len(hist.fired) : hist.fired[i] = "err"}) <= 1
    /\ errChan /= <<>> => Len(errChan[1].buf) <= 1

\* Start returned on the ready signal alone; the connection was lost
\* later, and the worker left the error in the buffer and ended.
C19_Witness ==
    /\ startPc = "done"
    /\ startRet = NoErr
    /\ hist.seen = <<"ready">>
    /\ workerPc = "exited"
    /\ runnerErr = "lost connection to pod"
    /\ errChan[1].buf = <<"lost connection to pod">>

(***************************************************************************)
(* Properties of the caching helpers, under SpecCache.                     *)
(***************************************************************************)
\* C11: getListenPort on a session whose ListenPort is not zero returns it
\* with no error and no free-port discovery, and leaves it as it is; on a
\* session whose ListenPort is zero it makes one discovery and, when the
\* discovery succeeds, returns the non-zero port found and stores it in
\* ListenPort.  So a later call returns the stored port without discovery
\* and a non-zero ListenPort never changes.
C11_ListenPortCached ==
    last.op = "getListenPort" =>
        /\ last.ListenPort /= 0 =>
              /\ last.port = last.ListenPort
              /\ last.err = NoErr
              /\ last.probes = 0
              /\ ListenPort = last.ListenPort
        /\ last.ListenPort = 0 =>
              /\ last.probes = 1
              /\ Discovered(last.listen) =>
                    /\ last.port /= 0
                    /\ last.port = last.listen.port
                    /\ last.err = NoErr
                    /\ ListenPort = last.port
        /\ Len(portLog) <= 1 \/ \A i \in 1..(Len(portLog) - 1) : ~Discovered(portLog[i])

\* The first call discovered port 40001; the second call, to which the
\* system would have given 40002, returned 40001 without discovery.
C11_Witness ==
    /\ last.op = "getListenPort"
    /\ last.n = 2
    /\ Len(portLog) = 1
    /\ portLog[1].port = 40001
    /\ last.listen.port = 40002
    /\ last.port = 40001
    /\ last.probes = 0

\* C20: a getResourceName call that resolves a name by labels stores it in
\* Name; a call on a session whose Name is set, by the caller or by an
\* earlier resolution, returns Name without a cluster API call, whatever
\* the cluster holds by then; a call whose resolution fails leaves Name
\* empty, so the next call with a selector asks the cluster again.
C20_NameCached ==
    last.op = "getResourceName" =>
        /\ last.Name /= "" =>
              /\ last.name = last.Name
              /\ last.err = NoErr
              /\ last.api = <<>>
              /\ Name = last.Name
        /\ (last.Name = "" /\ last.err = NoErr) =>
              /\ last.name /= ""
              /\ Name = last.name
        /\ (last.Name = "" /\ last.err /= NoErr) =>
              /\ last.name = ""
              /\ Name = ""
        /\ (last.Name = "" /\ Labels /= NoSelector) => Len(last.api) = 1

\* The first call resolved mypod1 by labels; the pod was then replaced by
\* mypod2, and the second call still returned mypod1 without an API call.
C20_Witness ==
    /\ last.op = "getResourceName"
    /\ last.n = 2
    /\ resType = "pod"
    /\ last.Name = "mypod1"
    /\ last.name = "mypod1"
    /\ last.api = <<>>
    /\ Len(apiLog) = 1
    /\ Len(pods) = 1
    /\ pods[1].name = "mypod2"

====
